---- MODULE Spec2Model ----
(***************************************************************************)
(* The feed poll pipeline of feedquest: src/src/main/tools/fetcher.py      *)
(* (_process_feed, fetch_batch, fetch_all_entries, fetch_feed) over the    *)
(* SQLite registry of src/src/main/tools/registry.py and the summarizer    *)
(* of src/src/main/tools/summarizer.py.                                    *)
(*                                                                         *)
(* Every feed task is a coroutine; its position is tasks[t].pc.  The       *)
(* environment (HTTP server, feed parser, summarization backend, SQLite)   *)
(* answers each call with an outcome drawn from a small set.               *)
(***************************************************************************)
EXTENDS Integers, Sequences, FiniteSets, Bags, TLC

\* ------------------------------------------------------------------ bounds
MaxTasks == 2
MaxPolls == 2
MaxLines == 6
MaxText == 5
MaxChunkSize == 4
MaxCallers == 2

\* ------------------------------------------------------- program constants
Cap == 5
max_retries == 3
DefaultBatch == 5
SemaphoreInit == 1
DocumentedBatch == 10
_summarizer_delay == 5
_pool_size == 5

\* ------------------------------------------------------------ input domains
NoVal == "none"
Urls == {"u1", "u2"}
Links == {"a", "b", "c", "d", "e", "f"}
Tasks == 1..MaxTasks
Callers == 1..MaxCallers

\* an entry as parse_feed returns it: its link, its cleaned content and its
\* cleaned summary ("" for a text that is missing or empty)
Entry(l, c, s) == [link |-> l, content |-> c, summary |-> s]

\* Parsed feeds the environment may serve (parse_feed's output): empty, one
\* link, two links, the same link twice, an entry without any text.
Payloads ==
    { <<>>,
      <<Entry("a", "c", "")>>,
      <<Entry("a", "c", ""), Entry("b", "c", "")>>,
      <<Entry("a", "c", ""), Entry("a", "c", "")>>,
      <<Entry("a", "", ""), Entry("b", "c", "")>> }

\* a parsed feed longer than the cap: six entries with six links
LongPayload ==
    << Entry("a", "c", ""), Entry("b", "c", ""), Entry("c", "c", ""),
       Entry("d", "c", ""), Entry("e", "c", ""), Entry("f", "c", "") >>

\* A timestamp string: its format and the instant it denotes.  "http" is
\* the HTTP date format ('%a, %d %b %Y %H:%M:%S %Z'), "iso" the ISO 8601 UTC
\* format the registry stores; NoDate is an absent one (None).
NoDate == [fmt |-> "none", t |-> 0]
HttpDate(i) == [fmt |-> "http", t |-> i]
IsoFormat(i) == [fmt |-> "iso", t |-> i]

\* Response headers of a 2xx answer.
ETagHeaders == {NoVal, "e1"}
\* an HTTP date at the lower end of the datetime range, as servers send for
\* a date that was never set ('Mon, 01 Jan 0001 00:00:00 GMT')
MinDate == HttpDate(-1)
LastModifiedHeaders == {NoDate, HttpDate(0), MinDate}

\* What summarize_text does as written: it returns the summary as a str
\* (stripped text of the completion), or raises.
SourceOutcomes == {"raise", "str"}
\* What a summarizer returning the {summary, ai_tags} mapping does, the
\* shape _process_feed reads: a non-empty summary, an empty one, or it raises.
ContractOutcomes == {"raise", "dict_ok", "dict_empty"}

\* The summarization backend of a run: the summarizer of the repository or
\* one that returns the mapping, each either as it may fail or working
\* (every call returns a non-empty summary); and the summarizer of the
\* repository behind a service that rejects every call (an authentication
\* failure, which no retry cures).
Backends ==
    {"source", "source_working", "source_denied", "contract", "contract_working"}

\* a call that returned a non-empty summary
Succeeded(o) == o \in {"str", "dict_ok"}

Outcomes(b) ==
    CASE b = "source" -> SourceOutcomes
      [] b = "source_working" -> { o \in SourceOutcomes : Succeeded(o) }
      [] b = "source_denied" -> { o \in SourceOutcomes : ~Succeeded(o) }
      [] b = "contract" -> ContractOutcomes
      [] b = "contract_working" -> { o \in ContractOutcomes : Succeeded(o) }

VARIABLES
    feeds,      \* feeds table: sequence of rows in rowid order
    entries,    \* entries table: bag of rows
    tasks,      \* the feed tasks of the running invocation
    call,       \* the running top-level invocation: its task count and result
    polls,      \* invocations started so far; also the wall clock of now()
    sem,        \* value of _summarizer_semaphore
    dbLocked,   \* _db_write_lock.locked()
    atStart,    \* history: the entries table when the invocation began
    backend,    \* the summarization backend of this run (never changes)
    timed,      \* whether this run keeps time (never changes)
    sinceLast,  \* seconds since the last summarizer request began, up to
                \* _summarizer_delay (kept in the timed runs only)
    payloads,   \* the parsed feeds the servers of this run may answer with
                \* (never changes)
    reply,      \* the last direct registry call: its argument and result
    feed_file,  \* feeds.txt of the file-based registry: its lines
    _pool,      \* the connection pool of db.py: whether the Queue exists,
                \* and the connections in it, oldest first
    callers,    \* the threads inside get_connection and its with-block
    txn         \* per connection: whether it has an open write transaction
                \* and the feeds table as that transaction sees it

vars == <<feeds, entries, tasks, call, polls, sem, dbLocked, atStart, backend,
          timed, sinceLast, payloads, reply, feed_file, _pool, callers, txn>>

\* ------------------------------------------------------------------ helpers
Min(a, b) == IF a < b THEN a ELSE b

TakeAll(s, n) == s

\* s[:n]
Take(s, n) == SubSeq(s, 1, Min(n, Len(s)))

RECURSIVE SumSeq(_)
SumSeq(s) == IF s = <<>> THEN 0 ELSE Head(s) + SumSeq(Tail(s))

FeedUrls(fs) == { fs[i].url : i \in 1..Len(fs) }

FeedIdx(fs, u) == CHOOSE i \in 1..Len(fs) : fs[i].url = u

\* get_feed: the rows of the URL; the empty set stands for None
get_feed(fs, u) == { fs[i] : i \in { j \in 1..Len(fs) : fs[j].url = u } }

\* datetime.now(): the wall clock, which advances between invocations
Now == polls

\* the instant an HTTP date header value denotes (strptime)
HttpDateTime(d) == d.t

\* dt.astimezone(timezone.utc) of _normalize_timestamp returns: the parsed
\* date, read as local time, is within the range of datetime (it raises
\* ValueError or OverflowError otherwise, outside the try of the parse)
Representable(ts) == ts = NoDate \/ HttpDateTime(ts) >= 0

\* _normalize_timestamp: the ISO string of an HTTP date, of now() when absent
_normalize_timestamp(ts) ==
    IF ts = NoDate THEN IsoFormat(Now) ELSE IsoFormat(HttpDateTime(ts))

\* str.strip() on the URLs a caller may pass
Strip(u) ==
    CASE u = " " -> ""
      [] u = " u1" -> "u1"
      [] OTHER -> u

\* feed_info as add_feed reads it: a missing key is None
FeedInfo(u, title, etag, lm) ==
    [url |-> u, title |-> title, etag |-> etag, last_modified |-> lm]

\* UNIQUE url of the feeds table: INSERT OR IGNORE inserts no second row
FeedUrlTaken(fs, u) == u \in FeedUrls(fs)

add_feed_append(fs, info) ==
    [store |-> Append(fs, [url |-> Strip(info.url), added |-> IsoFormat(Now),
                           title |-> info.title, etag |-> info.etag,
                           last_modified |-> _normalize_timestamp(info.last_modified)]),
     ok |-> TRUE]

add_feed_reports_insert(fs, info) ==
    LET feed_url == Strip(info.url)
        last_modified == _normalize_timestamp(info.last_modified)
    IN  IF feed_url = "" THEN [store |-> fs, ok |-> FALSE]
        ELSE IF ~FeedUrlTaken(fs, feed_url)
        THEN [store |-> Append(fs, [url |-> feed_url, added |-> IsoFormat(Now),
                                    title |-> info.title, etag |-> info.etag,
                                    last_modified |-> last_modified]),
              ok |-> TRUE]
        ELSE [store |-> [fs EXCEPT ![FeedIdx(fs, feed_url)] =
                 [@ EXCEPT !.title = IF info.title # NoVal THEN info.title ELSE @,
                           !.etag = IF info.etag # NoVal THEN info.etag ELSE @,
                           !.last_modified = last_modified]],
              ok |-> FALSE]

\* add_feed when its statements execute: the stripped URL is rejected when
\* empty; a new row gets added = now and the supplied fields; an existing
\* row gets title and etag when not None and last_modified, which
\* _normalize_timestamp has made non-None, always.  The result is the table
\* and the value returned.
add_feed(fs, info) ==
    LET feed_url == Strip(info.url)
        last_modified == _normalize_timestamp(info.last_modified)
    IN  IF feed_url = "" THEN [store |-> fs, ok |-> FALSE]
        ELSE IF ~FeedUrlTaken(fs, feed_url)
        THEN [store |-> Append(fs, [url |-> feed_url, added |-> IsoFormat(Now),
                                    title |-> info.title, etag |-> info.etag,
                                    last_modified |-> last_modified]),
              ok |-> TRUE]
        ELSE [store |-> [fs EXCEPT ![FeedIdx(fs, feed_url)] =
                 [@ EXCEPT !.title = IF info.title # NoVal THEN info.title ELSE @,
                           !.etag = IF info.etag # NoVal THEN info.etag ELSE @,
                           !.last_modified = last_modified]],
              ok |-> TRUE]

\* UNIQUE (feed, link) of the entries table
EntryKeyTaken(db, u, l) ==
    \E r \in BagToSet(db) : r.feed = u /\ r.link = l

Row(u, l, c, s, g) ==
    [feed |-> u, link |-> l, content |-> c, ai_summary |-> s, ai_tags |-> g]

add_entry_always(db, fs, u, l, c, s, g) ==
    IF u \notin FeedUrls(fs)
    THEN [store |-> db, id |-> 0]
    ELSE [store |-> db (+) SetToBag({Row(u, l, c, s, g)}),
          id |-> BagCardinality(db) + 1]

add_entry_unchecked(db, fs, u, l, c, s, g) ==
    IF EntryKeyTaken(db, u, l)
    THEN [store |-> db, id |-> 0]
    ELSE [store |-> db (+) SetToBag({Row(u, l, c, s, g)}),
          id |-> BagCardinality(db) + 1]

add_entry_replace(db, fs, u, l, c, s, g) ==
    IF u \notin FeedUrls(fs)
    THEN [store |-> db, id |-> 0]
    ELSE LET old == { r \in BagToSet(db) : r.feed = u /\ r.link = l }
         IN  [store |-> (db (-) [r \in old |-> CopiesIn(r, db)])
                          (+) SetToBag({Row(u, l, c, s, g)}),
              id |-> BagCardinality(db) + 1]

\* add_entry: INSERT OR IGNORE; id 0 stands for None
add_entry(db, fs, u, l, c, s, g) ==
    IF u \notin FeedUrls(fs)
    THEN [store |-> db, id |-> 0]
    ELSE IF EntryKeyTaken(db, u, l)
         THEN [store |-> db, id |-> 0]
         ELSE [store |-> db (+) SetToBag({Row(u, l, c, s, g)}),
               id |-> BagCardinality(db) + 1]

\* ---------------------------------------------------------------- the tasks
\* http, parsed, okcalls and failedInserts are history fields: the status
\* code received, whether the parser ran, the summarizer calls of the
\* current entry that returned a summary (counted up to 2, until the entry
\* is written or skipped), and the inserts of the task that raised.
\* timer is the time left of the sleep the task is in, text the value of
\* feed_content for the entry the task is at.
IdleTask ==
    [pc |-> "idle", url |-> NoVal, http |-> 0, status |-> "none",
     entries |-> <<>>, etag |-> NoVal, lm |-> NoDate, idx |-> 0,
     attempt |-> 0, ai |-> "empty", okcalls |-> 0, added |-> 0,
     parsed |-> FALSE, failedInserts |-> 0, timer |-> 0, text |-> ""]

feed_content_summary(entry) ==
    IF entry.summary # "" THEN entry.summary
    ELSE IF entry.content # "" THEN entry.content
    ELSE ""

\* lines 105-115: the text to summarise, the content if the entry has one,
\* else its summary ("" when it has neither); parse_feed returns the
\* content as one str, for which line 113 takes str(first)
feed_content(entry) ==
    IF entry.content # "" THEN entry.content
    ELSE IF entry.summary # "" THEN entry.summary
    ELSE ""

\* first index >= i whose entry has text to summarise ("if not feed_content:
\* continue" passes over the others)
RECURSIVE SkipTo(_, _)
SkipTo(es, i) ==
    IF i > Len(es) THEN i
    ELSE IF feed_content(es[i]) # "" THEN i ELSE SkipTo(es, i + 1)

AdvanceSkipping(r, i) ==
    LET j == SkipTo(r.entries, i + 1) IN
    IF j > Len(r.entries)
    THEN [r EXCEPT !.pc = "headers", !.idx = 0, !.attempt = 0, !.ai = "empty",
                   !.okcalls = 0, !.text = ""]
    ELSE [r EXCEPT !.pc = "gate", !.idx = j, !.attempt = 0, !.ai = "empty",
                   !.okcalls = 0, !.text = feed_content(r.entries[j])]

\* top of the entry loop from position i on; past the last entry the
\* response headers are read
Advance(r, i) ==
    LET j == SkipTo(r.entries, i) IN
    IF j > Len(r.entries)
    THEN [r EXCEPT !.pc = "headers", !.idx = 0, !.attempt = 0, !.ai = "empty",
                   !.okcalls = 0, !.text = ""]
    ELSE [r EXCEPT !.pc = "gate", !.idx = j, !.attempt = 0, !.ai = "empty",
                   !.okcalls = 0, !.text = feed_content(r.entries[j])]

NotModifiedNever(code) == FALSE

\* response.status_code == 304
NotModified(code) == code = 304

SemaphoreFreeAlways(s) == TRUE

\* asyncio.Semaphore: acquire proceeds when the value is positive
SemaphoreFree(s) == s > 0

LockFreeAlways(l) == TRUE

\* asyncio.Lock: acquire proceeds when not locked
LockFree(l) == ~l

\* a task is over when it returned or ended in an exception
Finished == {"done", "raised"}

\* r if isinstance(r, int) else 0
Contribution(r) == IF r.pc = "done" THEN r.added ELSE 0

TotalFirstOnly(ts, n) == IF n = 0 THEN 0 ELSE Contribution(ts[1])

\* sum(r if isinstance(r, int) else 0 for r in results)
TotalAdded(ts, n) == SumSeq([i \in 1..n |-> Contribution(ts[i])])

\* ------------------------------------------------------------ initial state
\* the registry after register_feed for one or two feeds without metadata
InitFeeds ==
    { add_feed(<<>>, FeedInfo("u1", NoVal, NoVal, NoDate)).store,
      add_feed(add_feed(<<>>, FeedInfo("u1", NoVal, NoVal, NoDate)).store,
               FeedInfo("u2", NoVal, NoVal, NoDate)).store }

IdleCall == [n |-> 0, status |-> "idle", processed |-> 0, added |-> 0]

\* no direct registry call made yet
NoReply ==
    [op |-> "none", url |-> "", ok |-> FALSE, id |-> 0, raised |-> FALSE,
     escaped |-> FALSE, urls |-> <<>>, text |-> <<>>]

\* db.py before the first get_connection: _pool is None, no thread is
\* inside get_connection, no connection exists
NoTxn == [dirty |-> FALSE, view |-> <<>>]

IdleCaller ==
    [pc |-> "idle", conn |-> 0, made |-> 0,
     info |-> FeedInfo("", NoVal, NoVal, NoDate)]

PoolStart ==
    /\ _pool = [set |-> FALSE, queue |-> <<>>]
    /\ callers = [u \in Callers |-> IdleCaller]
    /\ txn = [c \in 1.._pool_size |-> NoTxn]

Init ==
    /\ polls = 0
    /\ feeds \in InitFeeds
    /\ entries = EmptyBag
    /\ tasks = [t \in Tasks |-> IdleTask]
    /\ call = IdleCall
    /\ sem = SemaphoreInit
    /\ dbLocked = FALSE
    /\ atStart = EmptyBag
    /\ backend \in Backends
    /\ timed = FALSE
    /\ sinceLast = _summarizer_delay
    /\ payloads = Payloads
    /\ reply = NoReply
    /\ feed_file = <<>>
    /\ PoolStart

\* -------------------------------------------------------------- invocations
UrlLists == UNION { [1..n -> Urls] : n \in 0..MaxTasks }

Spawn(urls) ==
    [t \in Tasks |-> IF t <= Len(urls)
                     THEN [IdleTask EXCEPT !.pc = "start", !.url = urls[t]]
                     ELSE IdleTask]

\* The first invocation runs up to MaxTasks feed tasks concurrently; the
\* invocations after it are explored with one feed task each.
Width == IF polls = 0 THEN MaxTasks ELSE 1

CanInvoke == call.status \in {"idle", "done", "raised"} /\ polls < MaxPolls

Begin(urls, processed) ==
    /\ CanInvoke
    /\ Len(urls) <= Width
    /\ tasks' = Spawn(urls)
    /\ call' = [n |-> Len(urls), status |-> "running",
                processed |-> processed, added |-> 0]
    /\ polls' = polls + 1
    /\ atStart' = entries
    /\ UNCHANGED <<_pool, callers, txn, feed_file, payloads, reply, feeds, entries, sem, dbLocked, backend, timed, sinceLast>>

\* fetch_feed(feed_url), as the fetch endpoint calls it
FetchFeed(u) == Begin(<<u>>, 1)

\* stable sort by last_modified (list.sort): a row goes after the rows with
\* an older last_modified and after the earlier rows with an equal one
SortByLastModified(fs) ==
    LET Before(j, i) ==
            \/ fs[j].last_modified.t < fs[i].last_modified.t
            \/ fs[j].last_modified.t = fs[i].last_modified.t /\ j < i
        Place(i) == Cardinality({ j \in 1..Len(fs) : Before(j, i) }) + 1
    IN  [p \in 1..Len(fs) |-> fs[CHOOSE i \in 1..Len(fs) : Place(i) = p]]

\* list_feeds: the rows in rowid order, [] when the query raises
list_feeds(fs, dbOk) == IF dbOk THEN fs ELSE <<>>

DefaultUrlsUnsorted(fs) ==
    LET first == Take(fs, DefaultBatch)
    IN  [i \in 1..Len(first) |-> first[i].url]

\* the sort of line 196 and the slice of line 197: the URLs of the first
\* DefaultBatch feeds by last_modified (ISO strings of one format, which
\* order as their instants do)
DefaultUrls(fs) ==
    LET sorted == Take(SortByLastModified(fs), DefaultBatch)
    IN  [i \in 1..Len(sorted) |-> sorted[i].url]

\* the arguments of fetch_batch: a list of URLs or None
NoneArg == <<NoVal>>
BatchArgs == UrlLists \cup {NoneArg}

\* "not feed_urls": None or an empty list
Not(feed_urls) == feed_urls = NoneArg \/ feed_urls = <<>>

FetchBatchDefault(arg) ==
    \E dbOk \in BOOLEAN :
        LET urls == DefaultUrls(list_feeds(feeds, dbOk))
        IN  Begin(urls, Len(urls))

\* fetch_batch(feed_urls)
FetchBatch(arg) ==
    \E dbOk \in BOOLEAN :
        LET urls == IF Not(arg) THEN DefaultUrls(list_feeds(feeds, dbOk)) ELSE arg
        IN  Begin(urls, Len(urls))

\* fetch_all_entries()
FetchAllEntries ==
    \E dbOk \in BOOLEAN :
        LET fs == list_feeds(feeds, dbOk)
            urls == [i \in 1..Len(fs) |-> fs[i].url]
        IN  Begin(urls, Len(fs))

\* asyncio.gather(return_exceptions = True) returns once every task is
\* over and the totals are computed; fetch_feed awaits its one task
\* directly, so the exception of the task leaves fetch_feed
Return ==
    /\ call.status = "running"
    /\ \A t \in 1..call.n : tasks[t].pc \in Finished
    /\ \/ call' = [call EXCEPT !.status = "done",
                               !.added = TotalAdded(tasks, call.n)]
       \/ /\ call.n = 1 /\ call.processed = 1
          /\ tasks[1].pc = "raised"
          /\ call' = [call EXCEPT !.status = "raised"]
    /\ UNCHANGED <<_pool, callers, txn, feed_file, payloads, reply, feeds, entries, tasks, polls, sem, dbLocked, atStart, backend, timed, sinceLast>>

\* ------------------------------------------------------------ _process_feed
RegisteredAlways(stored) == TRUE

\* "if not stored" fails: get_feed returned a row
Registered(stored) == stored # {}

\* the validators _async_fetch sends for a stored row: If-None-Match and
\* If-Modified-Since carry the stored etag and last_modified
RequestHeaders(stored) ==
    [if_none_match |-> stored.etag, if_modified_since |-> stored.last_modified]

\* get_feed (None also when the query raises), then the conditional GET
Start(t) ==
    /\ tasks[t].pc = "start"
    /\ \E dbOk \in BOOLEAN :
         LET stored == IF dbOk THEN get_feed(feeds, tasks[t].url) ELSE {} IN
         tasks' = [tasks EXCEPT ![t] =
                     IF ~Registered(stored)
                     THEN [@ EXCEPT !.pc = "done", !.status = "unknown"]
                     ELSE [@ EXCEPT !.pc = "fetching"]]
    /\ UNCHANGED <<_pool, callers, txn, feed_file, payloads, reply, feeds, entries, call, polls, sem, dbLocked, atStart, backend, timed, sinceLast>>

FetchFailedAsEmpty(t) ==
    /\ tasks[t].pc = "fetching"
    /\ tasks' = [tasks EXCEPT ![t] = [@ EXCEPT !.pc = "headers", !.status = "failed"]]
    /\ UNCHANGED <<_pool, callers, txn, feed_file, payloads, reply, feeds, entries, call, polls, sem, dbLocked,
                   atStart, backend, timed, sinceLast>>

\* the GET failed: 4xx/5xx, timeout, transport error
FetchFailed(t) ==
    /\ tasks[t].pc = "fetching"
    /\ tasks' = [tasks EXCEPT ![t] = [@ EXCEPT !.pc = "done", !.status = "failed"]]
    /\ UNCHANGED <<_pool, callers, txn, feed_file, payloads, reply, feeds, entries, call, polls, sem, dbLocked, atStart, backend, timed, sinceLast>>

\* the GET answered with a status code; a 304 carries no body, which the
\* parser turns into no entries
FetchAnswered(t) ==
    /\ tasks[t].pc = "fetching"
    /\ \E code \in {200, 304} :
       \E body \in (IF code = 304 THEN {<<>>} ELSE payloads) :
       \E parseOk \in (IF code = 304 THEN {TRUE} ELSE BOOLEAN) :
         tasks' = [tasks EXCEPT ![t] =
            IF NotModified(code)
            THEN [@ EXCEPT !.pc = "done", !.http = code, !.status = "not_modified"]
            ELSE IF ~parseOk
            THEN [@ EXCEPT !.pc = "done", !.http = code, !.status = "parse_error",
                           !.parsed = TRUE]
            ELSE IF body = <<>>
            THEN [@ EXCEPT !.pc = "done", !.http = code, !.status = "empty",
                           !.parsed = TRUE]
            ELSE Advance([@ EXCEPT !.http = code, !.status = "ok",
                                   !.parsed = TRUE,
                                   !.entries = Take(body, Cap)], 1)]
    /\ UNCHANGED <<_pool, callers, txn, feed_file, payloads, reply, feeds, entries, call, polls, sem, dbLocked, atStart, backend, timed, sinceLast>>

\* async with _summarizer_semaphore: the call to summarize_text begins
SummarizeBegin(t) ==
    /\ tasks[t].pc = "gate"
    /\ SemaphoreFree(sem)
    /\ sem' = sem - 1
    /\ tasks' = [tasks EXCEPT ![t] = [@ EXCEPT !.pc = "summarizing"]]
    /\ sinceLast' = IF timed THEN 0 ELSE sinceLast
    /\ UNCHANGED <<_pool, callers, txn, feed_file, payloads, reply, feeds, entries, call, polls, dbLocked, atStart, backend, timed>>

SummaryCheckLenient(ai) == IF ai = "str" THEN "raise" ELSE "store"

\* line 143, "if not ai_summary.get('summary')": a str has no .get and
\* raises into the per-entry handler, an empty summary skips the entry
SummaryCheck(ai) ==
    CASE ai = "ok" -> "store"
      [] ai = "empty" -> "skip"
      [] ai = "str" -> "raise"

RECURSIVE Pow2(_)
Pow2(n) == IF n = 0 THEN 1 ELSE 2 * Pow2(n - 1)

\* (2 ** attempt) + random.random(): whole seconds the sleep lasts at least
Backoff(attempt) == Pow2(attempt)

\* a sleep of d seconds begins (time is kept in the timed runs only)
Sleep(d) == IF timed THEN d ELSE 0

\* the value of ai_summary after a call: unchanged when it raised, else
\* what it returned ("empty" is a mapping whose summary is empty, as is
\* the initial value of line 121; "ok" one whose summary is not)
Assigned(old, o) ==
    CASE o = "raise" -> old
      [] o = "str" -> "str"
      [] o = "dict_ok" -> "ok"
      [] o = "dict_empty" -> "empty"

\* summarize_text returns or raises; the semaphore is released.  A str has
\* no .get, so line 127 raises for it and the attempt counts as failed.
\* On the break the loop variable is dead.
SummarizeEnd(t) ==
    /\ tasks[t].pc = "summarizing"
    /\ sem' = sem + 1
    /\ \E o \in Outcomes(backend) :
         tasks' = [tasks EXCEPT ![t] =
            [@ EXCEPT !.pc = IF o = "dict_ok" THEN "delay" ELSE "backoff",
                      !.ai = Assigned(@, o),
                      !.attempt = IF o = "dict_ok" THEN 0 ELSE @,
                      !.okcalls = IF Succeeded(o) THEN Min(@ + 1, 2) ELSE @,
                      !.timer = IF o = "dict_ok"
                                THEN Sleep(_summarizer_delay)
                                ELSE Sleep(Backoff(tasks[t].attempt))]]
    /\ UNCHANGED <<_pool, callers, txn, feed_file, payloads, reply, feeds, entries, call, polls, dbLocked, atStart, backend, timed, sinceLast>>

AfterBackoffRetrying(t) ==
    /\ tasks[t].pc = "backoff"
    /\ tasks[t].timer = 0
    /\ tasks' = [tasks EXCEPT ![t] = [@ EXCEPT !.pc = "gate"]]
    /\ UNCHANGED <<_pool, callers, txn, feed_file, payloads, reply, feeds, entries, call, polls, sem, dbLocked, atStart, backend, timed, sinceLast>>

\* asyncio.sleep(backoff) is over: next attempt, or the loop is exhausted
AfterBackoff(t) ==
    /\ tasks[t].pc = "backoff"
    /\ tasks[t].timer = 0
    /\ tasks' = [tasks EXCEPT ![t] =
            IF @.attempt + 1 < max_retries
            THEN [@ EXCEPT !.pc = "gate", !.attempt = @ + 1]
            ELSE [@ EXCEPT !.pc = "delay", !.attempt = 0,
                           !.timer = Sleep(_summarizer_delay)]]
    /\ UNCHANGED <<_pool, callers, txn, feed_file, payloads, reply, feeds, entries, call, polls, sem, dbLocked, atStart, backend, timed, sinceLast>>

\* asyncio.sleep(_summarizer_delay + random()) is over; line 143 decides
\* whether the entry goes on to the insert
AfterDelay(t) ==
    /\ tasks[t].pc = "delay"
    /\ tasks[t].timer = 0
    /\ tasks' = [tasks EXCEPT ![t] =
            IF SummaryCheck(@.ai) = "store"
            THEN [@ EXCEPT !.pc = "entry_lock", !.okcalls = 0]
            ELSE Advance(@, @.idx + 1)]
    /\ UNCHANGED <<_pool, callers, txn, feed_file, payloads, reply, feeds, entries, call, polls, sem, dbLocked, atStart, backend, timed, sinceLast>>

\* async with _db_write_lock
AcquireLock(t) ==
    /\ tasks[t].pc \in {"entry_lock", "meta_lock"}
    /\ LockFree(dbLocked)
    /\ dbLocked' = TRUE
    /\ tasks' = [tasks EXCEPT ![t] =
            [@ EXCEPT !.pc = IF @ = "entry_lock" THEN "entry_write" ELSE "meta_write"]]
    /\ UNCHANGED <<_pool, callers, txn, feed_file, payloads, reply, feeds, entries, call, polls, sem, atStart, backend, timed, sinceLast>>

AfterFailedInsertAbort(r) ==
    [r EXCEPT !.pc = "done", !.added = 0, !.failedInserts = @ + 1,
              !.idx = 0, !.attempt = 0, !.ai = "empty", !.okcalls = 0,
              !.text = ""]

AfterFailedInsertUncounted(r) ==
    Advance([r EXCEPT !.failedInserts = @ + 1, !.added = 0], r.idx + 1)

\* "except Exception ... continue" of the entry loop: the entry is given
\* up and the loop goes on with the next one
AfterFailedInsert(r) ==
    Advance([r EXCEPT !.failedInserts = @ + 1], r.idx + 1)

\* ai_summary.get("summary") and ai_summary.get("ai_tags") as stored
SummaryOf(ai) == IF ai = "ok" THEN "s" ELSE ""
TagsOf(ai) == IF ai = "ok" THEN "t" ELSE ""

StillLocked == TRUE

\* _db_write_lock.locked() once "async with _db_write_lock" is left
Unlocked == FALSE

\* add_entry under the lock; the lock is released also when it raises
WriteEntry(t) ==
    /\ tasks[t].pc = "entry_write"
    /\ dbLocked' = Unlocked
    /\ \E dbOk \in BOOLEAN :
         LET r == tasks[t]
             res == add_entry(entries, feeds, r.url, r.entries[r.idx].link,
                              r.entries[r.idx].content,
                              SummaryOf(r.ai), TagsOf(r.ai))
         IN  IF dbOk
             THEN /\ entries' = res.store
                  /\ tasks' = [tasks EXCEPT ![t] =
                        Advance([r EXCEPT !.added = IF res.id # 0 THEN @ + 1 ELSE @],
                                r.idx + 1)]
             ELSE /\ entries' = entries
                  /\ tasks' = [tasks EXCEPT ![t] = AfterFailedInsert(r)]
    /\ UNCHANGED <<_pool, callers, txn, feed_file, payloads, reply, feeds, call, polls, sem, atStart, backend, timed, sinceLast>>

\* response.headers.get("ETag") / ("Last-Modified") after the loop
ReadHeaders(t) ==
    /\ tasks[t].pc = "headers"
    /\ \E e \in ETagHeaders : \E m \in LastModifiedHeaders :
         tasks' = [tasks EXCEPT ![t] =
            IF e # NoVal \/ m # NoDate
            THEN [@ EXCEPT !.pc = "meta_lock", !.etag = e, !.lm = m]
            ELSE [@ EXCEPT !.pc = "done"]]
    /\ UNCHANGED <<_pool, callers, txn, feed_file, payloads, reply, feeds, entries, call, polls, sem, dbLocked, atStart, backend, timed, sinceLast>>

\* add_feed with the new validators under the lock: it swallows a failure
\* of its storage statements, but the exception of the normalisation of
\* the Last-Modified received leaves add_feed and _process_feed
WriteMeta(t) ==
    /\ tasks[t].pc = "meta_write"
    /\ dbLocked' = Unlocked
    /\ LET r == tasks[t] IN
       IF ~Representable(r.lm)
       THEN /\ feeds' = feeds
            /\ tasks' = [tasks EXCEPT ![t] =
                   [r EXCEPT !.pc = "raised", !.etag = NoVal, !.lm = NoDate]]
       ELSE \E dbOk \in BOOLEAN :
            /\ feeds' = IF dbOk
                        THEN add_feed(feeds, FeedInfo(r.url, NoVal, r.etag, r.lm)).store
                        ELSE feeds
            /\ tasks' = [tasks EXCEPT ![t] =
                   [r EXCEPT !.pc = "done", !.etag = NoVal, !.lm = NoDate]]
    /\ UNCHANGED <<_pool, callers, txn, feed_file, payloads, reply, entries, call, polls, sem, atStart, backend, timed, sinceLast>>

Next ==
    \/ \E u \in Urls : FetchFeed(u)
    \/ \E arg \in BatchArgs : FetchBatch(arg)
    \/ FetchAllEntries
    \/ Return
    \/ \E t \in Tasks : Start(t)
    \/ \E t \in Tasks : FetchFailed(t)
    \/ \E t \in Tasks : FetchAnswered(t)
    \/ \E t \in Tasks : SummarizeBegin(t)
    \/ \E t \in Tasks : SummarizeEnd(t)
    \/ \E t \in Tasks : AfterBackoff(t)
    \/ \E t \in Tasks : AfterDelay(t)
    \/ \E t \in Tasks : AcquireLock(t)
    \/ \E t \in Tasks : WriteEntry(t)
    \/ \E t \in Tasks : ReadHeaders(t)
    \/ \E t \in Tasks : WriteMeta(t)

Spec == Init /\ [][Next]_vars

\* ------------------------------------------------------------- timed runs
\* One second passes: every sleeping task is a second closer to waking.
Tick ==
    /\ timed
    /\ (\E t \in Tasks : tasks[t].timer > 0) \/ sinceLast < _summarizer_delay
    /\ tasks' = [t \in Tasks |->
                    [tasks[t] EXCEPT !.timer = IF @ > 0 THEN @ - 1 ELSE 0]]
    /\ sinceLast' = Min(sinceLast + 1, _summarizer_delay)
    /\ UNCHANGED <<_pool, callers, txn, feed_file, payloads, reply, feeds, entries, call, polls, sem, dbLocked, atStart, backend,
                   timed>>

\* the timed runs follow one invocation
InitTimed ==
    /\ polls = MaxPolls - 1
    /\ feeds \in InitFeeds
    /\ entries = EmptyBag
    /\ tasks = [t \in Tasks |-> IdleTask]
    /\ call = IdleCall
    /\ sem = SemaphoreInit
    /\ dbLocked = FALSE
    /\ atStart = EmptyBag
    /\ backend \in Backends
    /\ timed = TRUE
    /\ sinceLast = _summarizer_delay
    /\ payloads = Payloads
    /\ reply = NoReply
    /\ feed_file = <<>>
    /\ PoolStart

NextTimed == Next \/ Tick

SpecTimed == InitTimed /\ [][NextTimed]_vars

\* ----------------------------------------------------------- backlog runs
\* the backlog runs follow one invocation against servers whose feeds are
\* longer than the cap
InitBacklog ==
    /\ polls = MaxPolls - 1
    /\ feeds \in InitFeeds
    /\ entries = EmptyBag
    /\ tasks = [t \in Tasks |-> IdleTask]
    /\ call = IdleCall
    /\ sem = SemaphoreInit
    /\ dbLocked = FALSE
    /\ atStart = EmptyBag
    /\ backend \in Backends
    /\ timed = FALSE
    /\ sinceLast = _summarizer_delay
    /\ payloads = {LongPayload}
    /\ reply = NoReply
    /\ feed_file = <<>>
    /\ PoolStart

SpecBacklog == InitBacklog /\ [][Next]_vars

\* ------------------------------------------------- direct registry calls
\* URLs, titles and the feed_info dicts a caller may pass to add_feed
RegistryUrls == {"", " ", "u1", " u1", "u2"}
Titles == {NoVal, "t1"}
FeedInfos ==
    { FeedInfo(u, ti, e, m) : u \in RegistryUrls, ti \in Titles,
                              e \in ETagHeaders, m \in LastModifiedHeaders }

\* a call, the URL it was given and what it returned: add_feed a bool,
\* add_entry an id (0 for None) or an exception.  raised: a statement in
\* the function's try raised; escaped: the call ended in an exception;
\* urls: the URLs a selection returned (the chunks a chunking returned);
\* text: a str argument, line by line (character by character)
Reply(op, url, ok, id, raised) ==
    [op |-> op, url |-> url, ok |-> ok, id |-> id, raised |-> raised,
     escaped |-> FALSE, urls |-> <<>>, text |-> <<>>]

\* add_feed(feed_info): the normalisation of line 67 is outside the try
\* and its exception leaves add_feed; when a statement of the try raises,
\* add_feed returns False
AddFeed(info) ==
    /\ call.status = "idle"
    /\ IF Strip(info.url) # "" /\ ~Representable(info.last_modified)
       THEN /\ feeds' = feeds
            /\ reply' = [Reply("add_feed", info.url, FALSE, 0, FALSE)
                            EXCEPT !.escaped = TRUE]
       ELSE \E dbOk \in BOOLEAN :
         LET res == add_feed(feeds, info) IN
         IF dbOk \/ Strip(info.url) = ""
         THEN /\ feeds' = res.store
              /\ reply' = Reply("add_feed", info.url, res.ok, 0, FALSE)
         ELSE /\ feeds' = feeds
              /\ reply' = Reply("add_feed", info.url, FALSE, 0, TRUE)
    /\ UNCHANGED <<_pool, callers, txn, feed_file, entries, tasks, call, polls, sem, dbLocked, atStart, backend,
                   timed, sinceLast, payloads>>

\* add_entry(feed_url, url = link, ...); a statement that raises is re-raised
AddEntry(u, l) ==
    /\ call.status = "idle"
    /\ \E dbOk \in BOOLEAN :
         LET res == add_entry(entries, feeds, u, l, "c", "s", "t") IN
         IF dbOk
         THEN /\ entries' = res.store
              /\ reply' = Reply("add_entry", u, FALSE, res.id, FALSE)
         ELSE /\ entries' = entries
              /\ reply' = Reply("add_entry", u, FALSE, 0, TRUE)
    /\ UNCHANGED <<_pool, callers, txn, feed_file, feeds, tasks, call, polls, sem, dbLocked, atStart, backend,
                   timed, sinceLast, payloads>>

\* the wall clock advances between calls (it stops one short of the polls
\* explored elsewhere)
TimePasses ==
    /\ call.status = "idle"
    /\ polls < MaxPolls - 1
    /\ polls' = polls + 1
    /\ UNCHANGED <<_pool, callers, txn, feed_file, feeds, entries, tasks, call, sem, dbLocked, atStart, backend,
                   timed, sinceLast, payloads, reply>>

\* the registry runs start from an empty database
InitRegistry ==
    /\ polls = 0
    /\ feeds = <<>>
    /\ entries = EmptyBag
    /\ tasks = [t \in Tasks |-> IdleTask]
    /\ call = IdleCall
    /\ sem = SemaphoreInit
    /\ dbLocked = FALSE
    /\ atStart = EmptyBag
    /\ backend = "source"
    /\ timed = FALSE
    /\ sinceLast = _summarizer_delay
    /\ payloads = Payloads
    /\ reply = NoReply
    /\ feed_file = <<>>
    /\ PoolStart

NextRegistry ==
    \/ \E info \in FeedInfos : AddFeed(info)
    \/ \E u \in {"u1", "u2"} : AddEntry(u, "a")
    \/ TimePasses

SpecRegistry == InitRegistry /\ [][NextRegistry]_vars

\* ------------------------------------------------ default batch selection
\* the selection runs register up to six feeds, one more than a default
\* batch holds, in this order and at different times, and select batches
ManyUrls == <<"u1", "u2", "u3", "u4", "u5", "u6">>

\* lines 194-197 of fetch_batch(None): the URLs of the batch, from the
\* feeds list_feeds returns
SelectBatch ==
    /\ call.status = "idle"
    /\ \E dbOk \in BOOLEAN :
         reply' = [Reply("fetch_batch", "", TRUE, 0, ~dbOk)
                     EXCEPT !.urls = DefaultUrls(list_feeds(feeds, dbOk))]
    /\ UNCHANGED <<_pool, callers, txn, feed_file, feeds, entries, tasks, call, polls, sem, dbLocked,
                   atStart, backend, timed, sinceLast, payloads>>

NextSelect ==
    \/ \E i \in 1..Len(ManyUrls) :
          /\ i <= Len(feeds) + 1
          /\ AddFeed(FeedInfo(ManyUrls[i], NoVal, NoVal, NoDate))
    \/ SelectBatch
    \/ TimePasses

SpecSelect == InitRegistry /\ [][NextSelect]_vars

\* ------------------------------------------------------- changed content
\* the runs with changed content poll servers that serve one link, with
\* one content or with another, through a summarizer that returns the
\* mapping
ChangingPayloads == { <<Entry("a", "c", "")>>, <<Entry("a", "d", "")>> }

InitRewrite ==
    /\ polls = 0
    /\ feeds \in InitFeeds
    /\ entries = EmptyBag
    /\ tasks = [t \in Tasks |-> IdleTask]
    /\ call = IdleCall
    /\ sem = SemaphoreInit
    /\ dbLocked = FALSE
    /\ atStart = EmptyBag
    /\ backend \in {"contract", "contract_working"}
    /\ timed = FALSE
    /\ sinceLast = _summarizer_delay
    /\ payloads = ChangingPayloads
    /\ reply = NoReply
    /\ feed_file = <<>>
    /\ PoolStart

SpecRewrite == InitRewrite /\ [][Next]_vars

\* ------------------------------------------------- the file-based registry
\* src/src/registry.py keeps the feed URLs in feeds.txt, one per line.  A
\* str is modelled line by line: the sequence of the pieces between its
\* line breaks.  The arguments: empty, blank, a URL, the URL with a space
\* before it, another URL, and a str with a line break inside.
FileArgs == { <<"">>, <<" ">>, <<"u1">>, <<" u1">>, <<"u2">>, <<"u3", "u4">> }

\* feed_url.strip(): the ends of the str are stripped; the strs of more
\* than one line considered here have nothing to strip
StripText(x) == IF Len(x) = 1 THEN <<Strip(x[1])>> ELSE x

NonBlank(line) == line # ""

\* list_feeds of registry.py: the stripped non-blank lines of the file
file_list_feeds(file) ==
    SelectSeq([i \in 1..Len(file) |-> Strip(file[i])], NonBlank)

\* add_feed of registry.py: the stripped str is refused when empty or equal
\* to a listed line; else it is written with a line break after it, which
\* makes a line of each of its lines
file_add_feed(file, x) ==
    LET feed_url == StripText(x)
        existing == { file_list_feeds(file)[i] : i \in 1..Len(file_list_feeds(file)) }
    IN  IF feed_url = <<"">> THEN [file |-> file, ok |-> FALSE]
        ELSE IF Len(feed_url) = 1 /\ feed_url[1] \in existing
        THEN [file |-> file, ok |-> FALSE]
        ELSE [file |-> file \o feed_url, ok |-> TRUE]

\* add_feed(feed_url) of registry.py
FileAddFeed(x) ==
    /\ Len(feed_file) + Len(x) <= MaxLines
    /\ LET res == file_add_feed(feed_file, x) IN
       /\ feed_file' = res.file
       /\ reply' = [Reply("file_add_feed", "", res.ok, 0, FALSE) EXCEPT !.text = x]
    /\ UNCHANGED <<_pool, callers, txn, feeds, entries, tasks, call, polls, sem, dbLocked, atStart,
                   backend, timed, sinceLast, payloads>>

\* list_feeds() of registry.py
FileListFeeds ==
    /\ reply' = [Reply("file_list_feeds", "", TRUE, 0, FALSE)
                    EXCEPT !.urls = file_list_feeds(feed_file)]
    /\ UNCHANGED <<_pool, callers, txn, feed_file, feeds, entries, tasks, call, polls, sem, dbLocked,
                   atStart, backend, timed, sinceLast, payloads>>

NextFile ==
    \/ \E x \in FileArgs : FileAddFeed(x)
    \/ FileListFeeds

\* the file runs start without a feeds.txt, which the first call creates
SpecFile == InitRegistry /\ [][NextFile]_vars

\* --------------------------------------------------------------- fair runs
\* the fair runs poll servers that answer with one feed of two entries,
\* the first of them without text
InitLive ==
    /\ polls = 0
    /\ feeds \in InitFeeds
    /\ entries = EmptyBag
    /\ tasks = [t \in Tasks |-> IdleTask]
    /\ call = IdleCall
    /\ sem = SemaphoreInit
    /\ dbLocked = FALSE
    /\ atStart = EmptyBag
    /\ backend \in {"source", "contract"}
    /\ timed = FALSE
    /\ sinceLast = _summarizer_delay
    /\ payloads = {<<Entry("a", "", ""), Entry("b", "c", "")>>}
    /\ reply = NoReply
    /\ feed_file = <<>>
    /\ PoolStart

\* the next step of feed task t
TaskStep(t) ==
    \/ Start(t)
    \/ FetchFailed(t)
    \/ FetchAnswered(t)
    \/ SummarizeBegin(t)
    \/ SummarizeEnd(t)
    \/ AfterBackoff(t)
    \/ AfterDelay(t)
    \/ AcquireLock(t)
    \/ WriteEntry(t)
    \/ ReadHeaders(t)
    \/ WriteMeta(t)

\* The event loop runs every ready coroutine: a feed task that can take its
\* next step takes it (the GET and the summarizer call return or time out,
\* a sleep ends, a free semaphore or lock is handed over), and gather
\* returns once its tasks are over.  No invocation is bound to follow.
Fairness ==
    /\ \A t \in Tasks : WF_vars(TaskStep(t))
    /\ WF_vars(Return)

SpecLive == InitLive /\ [][Next]_vars /\ Fairness

\* ------------------------------------------------------- content or summary
\* the runs of the text selection follow one invocation against servers
\* whose entries have a content and a summary, a summary only, or neither
TextPayloads ==
    { <<Entry("a", "", ""), Entry("b", "", "s")>>,
      <<Entry("a", "c", "s"), Entry("b", "", "")>> }

InitText ==
    /\ polls = MaxPolls - 1
    /\ feeds \in InitFeeds
    /\ entries = EmptyBag
    /\ tasks = [t \in Tasks |-> IdleTask]
    /\ call = IdleCall
    /\ sem = SemaphoreInit
    /\ dbLocked = FALSE
    /\ atStart = EmptyBag
    /\ backend \in {"source", "contract"}
    /\ timed = FALSE
    /\ sinceLast = _summarizer_delay
    /\ payloads = TextPayloads
    /\ reply = NoReply
    /\ feed_file = <<>>
    /\ PoolStart

SpecText == InitText /\ [][Next]_vars

\* ---------------------------------------------------------- chunk_long_text
\* a text is a str, character by character; MaxText bounds its length and
\* MaxChunkSize the max_chunk_size of a call
Chars == {"a", ".", "!", " ", "|"}
Enders == {"!", "?", "."}
Texts == UNION { [1..n -> Chars] : n \in 0..MaxText }
ChunkSizes == 0..MaxChunkSize

\* text.replace("! ", "!|").replace("? ", "?|").replace(". ", ".|"): the
\* space after a sentence end becomes the separator
ReplaceEnders(text) ==
    [i \in 1..Len(text) |->
        IF text[i] = " " /\ i > 1 /\ text[i - 1] \in Enders THEN "|" ELSE text[i]]

\* str.split(sep): the pieces between the separators, empty ones included
RECURSIVE Split(_, _)
Split(text, sep) ==
    IF \A i \in 1..Len(text) : text[i] # sep
    THEN <<text>>
    ELSE LET k == CHOOSE i \in 1..Len(text) :
                     text[i] = sep /\ \A j \in 1..(i - 1) : text[j] # sep
         IN  <<SubSeq(text, 1, k - 1)>> \o Split(SubSeq(text, k + 1, Len(text)), sep)

\* sentence.strip()
RECURSIVE StripSentence(_)
StripSentence(sentence) ==
    IF sentence = <<>> THEN sentence
    ELSE IF Head(sentence) = " " THEN StripSentence(Tail(sentence))
    ELSE IF sentence[Len(sentence)] = " "
         THEN StripSentence(SubSeq(sentence, 1, Len(sentence) - 1))
    ELSE sentence

\* " ".join(current_chunk)
RECURSIVE Join(_)
Join(current_chunk) ==
    IF current_chunk = <<>> THEN <<>>
    ELSE IF Len(current_chunk) = 1 THEN current_chunk[1]
    ELSE current_chunk[1] \o <<" ">> \o Join(Tail(current_chunk))

SizeAfterNoSpace(current_size, sentence) == current_size + Len(sentence)

\* current_size += len(sentence) + 1
SizeAfter(current_size, sentence) == current_size + Len(sentence) + 1

\* the loop over the sentences and the flush of the last chunk after it
RECURSIVE ChunkLoop(_, _, _, _, _)
ChunkLoop(sentences, max_chunk_size, chunks, current_chunk, current_size) ==
    IF sentences = <<>>
    THEN IF current_chunk # <<>> THEN Append(chunks, Join(current_chunk)) ELSE chunks
    ELSE LET sentence == StripSentence(Head(sentences)) IN
         IF sentence = <<>>
         THEN ChunkLoop(Tail(sentences), max_chunk_size, chunks, current_chunk,
                        current_size)
         ELSE IF current_size + Len(sentence) > max_chunk_size /\ current_chunk # <<>>
         THEN ChunkLoop(Tail(sentences), max_chunk_size,
                        Append(chunks, Join(current_chunk)), <<sentence>>,
                        SizeAfter(0, sentence))
         ELSE ChunkLoop(Tail(sentences), max_chunk_size, chunks,
                        Append(current_chunk, sentence),
                        SizeAfter(current_size, sentence))

chunk_long_text(text, max_chunk_size) ==
    ChunkLoop(Split(ReplaceEnders(text), "|"), max_chunk_size, <<>>, <<>>, 0)

\* a call of chunk_long_text with the text and the size of this run; the
\* chunks it returns are kept in reply.urls
ChunkLongText ==
    /\ reply.op = "none"
    /\ reply' = [reply EXCEPT !.op = "chunk_long_text",
                              !.urls = chunk_long_text(reply.text, reply.id)]
    /\ UNCHANGED <<_pool, callers, txn, feed_file, feeds, entries, tasks, call, polls, sem, dbLocked,
                   atStart, backend, timed, sinceLast, payloads>>

\* the chunking runs: one text and one max_chunk_size each
InitChunk ==
    /\ polls = 0
    /\ feeds = <<>>
    /\ entries = EmptyBag
    /\ tasks = [t \in Tasks |-> IdleTask]
    /\ call = IdleCall
    /\ sem = SemaphoreInit
    /\ dbLocked = FALSE
    /\ atStart = EmptyBag
    /\ backend = "source"
    /\ timed = FALSE
    /\ sinceLast = _summarizer_delay
    /\ payloads = Payloads
    /\ reply \in { [NoReply EXCEPT !.text = x, !.id = m] :
                      x \in Texts, m \in ChunkSizes }
    /\ feed_file = <<>>
    /\ PoolStart

NextChunk == ChunkLongText

SpecChunk == InitChunk /\ [][NextChunk]_vars

\* ------------------------------------------------------ the connection pool
\* the registry calls of the pool runs: add_feed for two URLs
PoolInfos ==
    { FeedInfo("u1", NoVal, NoVal, NoDate), FeedInfo("u2", NoVal, NoVal, NoDate) }

PutLost(queue, conn) == queue

\* _pool.put(conn)
Put(queue, conn) == Append(queue, conn)

\* a thread calls add_feed, which enters get_connection: the first caller
\* finds _pool None, takes _pool_lock and begins _init_pool,
\* which assigns the empty Queue to _pool before it fills it
Enter(u, info) ==
    /\ call.status = "idle"
    /\ callers[u].pc = "idle"
    /\ IF ~_pool.set
       THEN /\ _pool' = [set |-> TRUE, queue |-> <<>>]
            /\ callers' = [callers EXCEPT ![u] =
                  [@ EXCEPT !.pc = "init", !.info = info, !.made = 0]]
       ELSE /\ _pool' = _pool
            /\ callers' = [callers EXCEPT ![u] =
                  [@ EXCEPT !.pc = "get", !.info = info]]
    /\ UNCHANGED <<txn, feed_file, feeds, entries, tasks, call, polls, sem,
                   dbLocked, atStart, backend, timed, sinceLast, payloads, reply>>

\* one round of the loop of _init_pool: a connection is made and put
InitPoolPut(u) ==
    /\ callers[u].pc = "init"
    /\ LET conn == callers[u].made + 1 IN
       /\ _pool' = [_pool EXCEPT !.queue = Put(@, conn)]
       /\ callers' = [callers EXCEPT ![u] =
             [@ EXCEPT !.made = conn,
                       !.pc = IF conn = _pool_size THEN "get" ELSE "init"]]
    /\ UNCHANGED <<txn, feed_file, feeds, entries, tasks, call, polls, sem,
                   dbLocked, atStart, backend, timed, sinceLast, payloads, reply>>

\* conn = _pool.get(): blocks while the Queue is empty
Get(u) ==
    /\ callers[u].pc = "get"
    /\ _pool.queue # <<>>
    /\ _pool' = [_pool EXCEPT !.queue = Tail(@)]
    /\ callers' = [callers EXCEPT ![u] =
          [@ EXCEPT !.pc = "body", !.conn = Head(_pool.queue)]]
    /\ UNCHANGED <<txn, feed_file, feeds, entries, tasks, call, polls, sem,
                   dbLocked, atStart, backend, timed, sinceLast, payloads, reply>>

\* The with-block of add_feed runs on the connection and is left, by its
\* end, by the return inside it after the UPDATE or by an exception, and the
\* finally of get_connection puts the connection back as it is: nothing
\* rolls back.  SQLite: the first write statement opens a transaction on
\* the connection, which sees its own uncommitted rows; while it is open
\* the write statements of the other connections raise ("database is
\* locked"); commit makes its rows the table.  fault is the statement of
\* add_feed that raises.
Leave(u) ==
    /\ callers[u].pc = "body"
    /\ LET conn == callers[u].conn
           info == callers[u].info
           locked == \E d \in 1.._pool_size : d # conn /\ txn[d].dirty
           view == IF txn[conn].dirty THEN txn[conn].view ELSE feeds
           res == add_feed(view, info)
       IN  /\ _pool' = [_pool EXCEPT !.queue = Put(@, conn)]
           /\ callers' = [callers EXCEPT ![u] = IdleCaller]
           /\ \E fault \in (IF locked THEN {"insert"}
                            ELSE {"none", "insert", "update", "commit"}) :
                   CASE fault = "insert" ->
                          /\ feeds' = feeds
                          /\ txn' = txn
                          /\ reply' = Reply("add_feed", info.url, FALSE, 0, TRUE)
                     [] fault = "update" ->
                          /\ FeedUrlTaken(view, Strip(info.url))
                          /\ feeds' = feeds
                          /\ txn' = [txn EXCEPT ![conn] =
                                       [dirty |-> TRUE, view |-> view]]
                          /\ reply' = Reply("add_feed", info.url, FALSE, 0, TRUE)
                     [] fault = "commit" ->
                          /\ feeds' = feeds
                          /\ txn' = [txn EXCEPT ![conn] =
                                       [dirty |-> TRUE, view |-> res.store]]
                          /\ reply' = Reply("add_feed", info.url, FALSE, 0, TRUE)
                     [] fault = "none" ->
                          /\ feeds' = res.store
                          /\ txn' = [txn EXCEPT ![conn] = NoTxn]
                          /\ reply' = Reply("add_feed", info.url, res.ok, 0, FALSE)
    /\ UNCHANGED <<feed_file, entries, tasks, call, polls, sem, dbLocked,
                   atStart, backend, timed, sinceLast, payloads>>

NextPool ==
    \/ \E u \in Callers : \E info \in PoolInfos : Enter(u, info)
    \/ \E u \in Callers : InitPoolPut(u)
    \/ \E u \in Callers : Get(u)
    \/ \E u \in Callers : Leave(u)

SpecPool == InitRegistry /\ [][NextPool]_vars

\* --------------------------------------------------- repeated default batches
\* what a poll of one feed of a batch comes to for the feed's row: no row
\* is written (the GET failed, the server answered 304, or it answered
\* without validators), or the server answered with an ETag
PollOutcomes == {"unchanged", "etag"}

\* the row of a feed after its poll (lines 85-86 and 178-184 of
\* _process_feed): add_feed rewrites the row of the URL and no other
PollEffect(row, outcome) ==
    IF outcome = "etag"
    THEN add_feed(<<row>>, FeedInfo(row.url, NoVal, "e1", NoDate)).store[1]
    ELSE row

\* the feeds table after the polls of a batch; each poll writes its own row
PollAll(fs, urls, outcomes) ==
    [i \in 1..Len(fs) |->
        IF \E k \in 1..Len(urls) : urls[k] = fs[i].url
        THEN PollEffect(fs[i], outcomes[CHOOSE k \in 1..Len(urls) :
                                                urls[k] = fs[i].url])
        ELSE fs[i]]

RECURSIVE RegisterAll(_, _)
RegisterAll(fs, urls) ==
    IF urls = <<>> THEN fs
    ELSE RegisterAll(add_feed(fs, FeedInfo(Head(urls), NoVal, NoVal, NoDate)).store,
                     Tail(urls))

\* fetch_batch(None) from its selection to its return, each feed of the
\* batch with one of the outcomes; reply.id is the number of default
\* batches polled so far, modulo 2
PollDefaultBatch ==
    /\ call.status = "idle"
    /\ LET batch == DefaultUrls(list_feeds(feeds, TRUE)) IN
       \E outcomes \in [1..Len(batch) -> PollOutcomes] :
          /\ feeds' = PollAll(feeds, batch, outcomes)
          /\ reply' = [Reply("fetch_batch", "", TRUE, 1 - reply.id, FALSE)
                         EXCEPT !.urls = batch]
    /\ UNCHANGED <<_pool, callers, txn, feed_file, entries, tasks, call, polls,
                   sem, dbLocked, atStart, backend, timed, sinceLast, payloads>>

\* the runs of repeated default batches start with six feeds registered,
\* one more than a default batch holds
InitStarve ==
    /\ polls = 0
    /\ feeds = RegisterAll(<<>>, ManyUrls)
    /\ entries = EmptyBag
    /\ tasks = [t \in Tasks |-> IdleTask]
    /\ call = IdleCall
    /\ sem = SemaphoreInit
    /\ dbLocked = FALSE
    /\ atStart = EmptyBag
    /\ backend = "source"
    /\ timed = FALSE
    /\ sinceLast = _summarizer_delay
    /\ payloads = Payloads
    /\ reply = NoReply
    /\ feed_file = <<>>
    /\ PoolStart

NextStarve == PollDefaultBatch \/ TimePasses

\* default batches are polled again and again
SpecStarve == InitStarve /\ [][NextStarve]_vars /\ WF_vars(PollDefaultBatch)

\* ------------------------------------------------------------- properties
\* rows of the entries table with the key (u, l), with their copies
KeyCount(db, u, l) ==
    LET S == { r \in BagToSet(db) : r.feed = u /\ r.link = l }
    IN  BagCardinality([r \in S |-> CopiesIn(r, db)])

\* the tasks of the running (or last) invocation
Running == 1..call.n

C3_OneInFlight ==
    Cardinality({ t \in Tasks : tasks[t].pc = "summarizing" }) <= 1

\* C3 witness: one task is inside summarize_text while another waits for
\* the semaphore.
C3_Witness ==
    \E t1 \in Tasks : \E t2 \in Tasks :
        /\ tasks[t1].pc = "summarizing"
        /\ tasks[t2].pc = "gate"
        /\ sem = 0

\* C4 as stated: a summarization request begins only when at least
\* _summarizer_delay seconds have passed since the previous one began.
C4_Pacing ==
    [][\A t \in Tasks :
         (tasks[t].pc = "gate" /\ tasks'[t].pc = "summarizing")
         => sinceLast >= _summarizer_delay]_vars

WriterPcs == {"entry_write", "meta_write"}
Writers == { t \in Tasks : tasks[t].pc \in WriterPcs }

\* C5: at most one task is inside a storage write, it holds the write lock,
\* the tables change only in a step of that task, and that step releases
\* the lock.
C5_SingleWriter ==
    [][/\ Cardinality(Writers) <= 1
       /\ (Writers # {}) <=> dbLocked
       /\ (entries' # entries \/ feeds' # feeds)
            => \E t \in Writers : tasks'[t].pc \notin WriterPcs
       /\ \A t \in Writers :
            tasks'[t] # tasks[t] => (tasks'[t].pc \notin WriterPcs /\ ~dbLocked')
      ]_vars

\* C5 witness: with the summarizer of the repository, one task is inside
\* add_feed while another waits for the lock.
C5_Witness ==
    \E t1 \in Tasks : \E t2 \in Tasks :
        /\ backend = "source"
        /\ tasks[t1].pc = "meta_write"
        /\ tasks[t2].pc = "meta_lock"
        /\ dbLocked

\* C6 as stated: for one entry the summarizer returns a summary at most
\* once.
C6_AtMostOnce == \A t \in Tasks : tasks[t].okcalls <= 1

\* C7: a task whose fetch is answered 304 ends there with 0 added and an
\* unparsed body, and that step leaves the tables, the semaphore and the
\* lock alone; a task that received 304 is done.
C7_NotModified ==
    [][\A t \in Tasks :
         /\ (tasks[t].http = 304)
              => (tasks[t].pc = "done" /\ tasks[t].added = 0 /\ ~tasks[t].parsed)
         /\ (tasks[t].pc = "fetching" /\ tasks'[t].http = 304)
              => /\ tasks'[t].pc = "done"
                 /\ tasks'[t].added = 0
                 /\ ~tasks'[t].parsed
                 /\ <<entries, feeds, sem, dbLocked>>' = <<entries, feeds, sem, dbLocked>>
      ]_vars

\* C7 witness: the feed row holds the validator "e1" from an earlier poll,
\* and the poll that followed was answered 304 and reported 0.
C7_Witness ==
    /\ call.status = "done" /\ call.n = 1 /\ call.added = 0
    /\ tasks[1].http = 304
    /\ \E f \in get_feed(feeds, tasks[1].url) : f.etag = "e1"

\* links of the fetched (capped) payload of task record r that were not
\* stored for its feed when the invocation began
FreshLinks(r) ==
    { l \in Links : /\ \E i \in 1..Len(r.entries) : r.entries[i].link = l
                    /\ ~EntryKeyTaken(atStart, r.url, l) }

\* the entry has a content or a summary
HasText(e) == e.content # "" \/ e.summary # ""

\* those of them carried by an entry that has text to summarise
FreshTextLinks(r) ==
    { l \in Links : /\ \E i \in 1..Len(r.entries) :
                          r.entries[i].link = l /\ HasText(r.entries[i])
                    /\ ~EntryKeyTaken(atStart, r.url, l) }

\* no other task of the invocation polls the feed of task t
UniqueUrl(t) == \A t2 \in Running \ {t} : tasks[t2].url # tasks[t].url

AddedUpTo[k \in 0..MaxTasks] ==
    IF k = 0 THEN 0
    ELSE AddedUpTo[k - 1] + (IF tasks[k].pc = "done" THEN tasks[k].added ELSE 0)

C10_PollScenario ==
    (/\ backend = "source_working"
     /\ call.status = "done" /\ call.n = 1
     /\ tasks[1].status \in {"ok", "empty"}
     /\ tasks[1].failedInserts = 0)
    => call.added = Cardinality(FreshLinks(tasks[1]))

\* a step of a direct add_feed call, of a direct add_entry call (a call that
\* changes nothing at all is no step); reply' holds its URL and result
AddFeedStep == reply'.op = "add_feed" /\ (feeds' # feeds \/ reply' # reply)
AddEntryStep == reply'.op = "add_entry" /\ (entries' # entries \/ reply' # reply)

\* C11: the feeds table never holds a URL twice, every URL in it is
\* stripped and non-empty, a row keeps its place and its added timestamp
\* whatever calls follow, and an add_feed that returned True leaves exactly
\* the URLs there were plus its own stripped URL.
C11_IdempotentRegistration ==
    [][/\ \A i \in 1..Len(feeds') : \A j \in 1..Len(feeds') :
            feeds'[i].url = feeds'[j].url => i = j
       /\ \A i \in 1..Len(feeds') :
            feeds'[i].url # "" /\ Strip(feeds'[i].url) = feeds'[i].url
       /\ Len(feeds') >= Len(feeds)
       /\ \A i \in 1..Len(feeds) :
            feeds'[i].url = feeds[i].url /\ feeds'[i].added = feeds[i].added
       /\ (AddFeedStep /\ reply'.ok)
            => FeedUrls(feeds') = FeedUrls(feeds) \cup {Strip(reply'.url)}
      ]_vars

\* C11 witness: two feeds are registered, and one of them, added at time 0,
\* was the subject of a repeated add_feed at time 1.
C11_Witness ==
    /\ Len(feeds) = 2
    /\ reply.op = "add_feed" /\ reply.ok
    /\ \E i \in 1..Len(feeds) :
         feeds[i].added = IsoFormat(0) /\ feeds[i].last_modified = IsoFormat(1)

\* C12 as stated: an add_feed for a URL that has a row leaves each of
\* title, etag and last_modified that the call does not supply as stored.
C12_UpsertFrame ==
    [][\A info \in FeedInfos : \A i \in 1..Len(feeds) :
         (AddFeed(info) /\ reply'.ok /\ feeds[i].url = Strip(info.url))
         => /\ info.title = NoVal => feeds'[i].title = feeds[i].title
            /\ info.etag = NoVal => feeds'[i].etag = feeds[i].etag
            /\ info.last_modified = NoDate
                 => feeds'[i].last_modified = feeds[i].last_modified
      ]_vars

C14_InsertIfAbsent ==
    [][AddEntryStep
         => LET u == reply'.url IN
            /\ (reply'.id # 0) <=> (entries' # entries)
            /\ reply'.id # 0
                 => /\ FeedUrlTaken(feeds, u) /\ ~EntryKeyTaken(entries, u, "a")
                    /\ entries' = entries (+) SetToBag({Row(u, "a", "c", "s", "t")})
            /\ (EntryKeyTaken(entries, u, "a") \/ ~FeedUrlTaken(feeds, u))
                 => (entries' = entries /\ reply'.id = 0)
            /\ (FeedUrlTaken(feeds, u) /\ ~EntryKeyTaken(entries, u, "a")
                  /\ ~reply'.raised)
                 => reply'.id # 0
      ]_vars

\* C14 witness: (u1, a) is stored, u2 has no row, and the last add_entry,
\* for a stored pair or for the unknown feed, returned None without raising.
C14_Witness ==
    /\ reply.op = "add_entry" /\ reply.id = 0 /\ ~reply.raised
    /\ EntryKeyTaken(entries, "u1", "a")
    /\ ~FeedUrlTaken(feeds, "u2")

\* C15: a task whose URL has no row in the feeds store never leaves the
\* lookup except to finish: it issues no GET, parses nothing, calls no
\* summarizer, attempts no insert and contributes 0; and no step of a poll
\* adds a row to the feeds store, so the URL stays unregistered.
C15_UnknownFeed ==
    [][/\ FeedUrls(feeds') = FeedUrls(feeds)
       /\ \A t \in Tasks :
            (tasks'[t].pc # "idle" /\ get_feed(feeds', tasks'[t].url) = {})
              => /\ tasks'[t].pc \in {"start", "done"}
                 /\ tasks'[t].pc = "done" => tasks'[t].status = "unknown"
                 /\ tasks'[t].http = 0 /\ ~tasks'[t].parsed
                 /\ tasks'[t].okcalls = 0 /\ tasks'[t].attempt = 0
                 /\ tasks'[t].added = 0 /\ tasks'[t].failedInserts = 0
                 /\ (tasks[t].pc = "start" /\ tasks'[t].pc = "done")
                      => (entries' = entries /\ feeds' = feeds)
      ]_vars

\* C15 witness: an invocation for the unregistered u2 has returned 0 and u2
\* is still not registered.
C15_Witness ==
    /\ call.status = "done" /\ call.n = 1 /\ call.added = 0
    /\ tasks[1].url = "u2" /\ tasks[1].status = "unknown"
    /\ get_feed(feeds, "u2") = {}
    /\ entries = EmptyBag

\* C16 as stated: a summarizer call for an entry is one of the first three
\* and follows no call that returned a non-empty summary for that entry.
C16_RetryBound ==
    \A t \in Tasks :
        tasks[t].pc = "summarizing"
          => (tasks[t].attempt < max_retries /\ tasks[t].okcalls = 0)

\* C17 as stated: behind a service that rejects every call with an error
\* no retry cures, each entry gets one summarizer call and no second one.
C17_PermanentNotRetried ==
    backend = "source_denied"
      => \A t \in Tasks : tasks[t].pc = "summarizing" => tasks[t].attempt = 0

\* C18: a task issues its GET once (it reaches the request only from the
\* lookup, which it passes once per invocation); when the GET fails the
\* task is done with 0 added and nothing parsed, and the failing step
\* leaves the entries, the feed rows and so the validators of the next
\* request as they were.
C18_FetchFailure ==
    [][\A t \in Tasks :
         /\ (tasks'[t].pc = "fetching" /\ tasks[t].pc # "fetching")
              => (tasks[t].pc = "start" /\ polls' = polls)
         /\ (tasks'[t].pc = "start" /\ tasks[t].pc # "start")
              => polls' = polls + 1
         /\ tasks'[t].status = "failed"
              => /\ tasks'[t].pc = "done"
                 /\ tasks'[t].added = 0 /\ ~tasks'[t].parsed
                 /\ tasks'[t].okcalls = 0
         /\ (tasks[t].pc = "fetching" /\ tasks'[t].status = "failed")
              => /\ entries' = entries
                 /\ \A f \in get_feed(feeds, tasks[t].url) :
                      \E g \in get_feed(feeds', tasks[t].url) :
                         RequestHeaders(g) = RequestHeaders(f)
                 /\ feeds' = feeds
      ]_vars

\* C18 witness: a poll of a feed whose row holds the validators of an earlier
\* poll has failed at the GET and returned 0; the row still holds them.
C18_Witness ==
    /\ call.status = "done" /\ call.n = 1 /\ call.added = 0
    /\ tasks[1].status = "failed"
    /\ \E f \in get_feed(feeds, tasks[1].url) :
          RequestHeaders(f).if_none_match = "e1"

C20_ValidatorFeedback ==
    [][\A t \in Tasks :
         (tasks[t].pc = "meta_write" /\ tasks'[t].pc = "done" /\ feeds' # feeds)
           => \A row \in get_feed(feeds', tasks[t].url) :
                /\ tasks[t].etag # NoVal
                     => RequestHeaders(row).if_none_match = tasks[t].etag
                /\ tasks[t].lm # NoDate
                     => RequestHeaders(row).if_modified_since = tasks[t].lm
      ]_vars

\* C21 (as amended): fetch_batch called with a non-empty list starts one
\* feed task per URL of the list, in the order of the list, and none for
\* any other feed, and reports as many feeds as the list has URLs; a task
\* is given its URL only when an invocation begins.
C21_ExplicitBatch ==
    [][/\ \A arg \in UrlLists \ {<<>>} :
            FetchBatch(arg)
              => /\ call'.n = Len(arg) /\ call'.processed = Len(arg)
                 /\ \A t \in Tasks :
                      IF t <= Len(arg)
                      THEN tasks'[t].pc = "start" /\ tasks'[t].url = arg[t]
                      ELSE tasks'[t].pc = "idle"
       /\ \A t \in Tasks :
            tasks'[t].url # tasks[t].url => polls' = polls + 1
      ]_vars

\* C21 witness: with u1 and u2 registered, an invocation for the list [u2]
\* is running one task, for u2, and no task for u1.
C21_Witness ==
    /\ call.status = "running" /\ call.n = 1 /\ call.processed = 1
    /\ FeedUrls(feeds) = {"u1", "u2"}
    /\ tasks[1].pc = "start" /\ tasks[1].url = "u2"
    /\ tasks[2].pc = "idle"

\* C21 as stated for the empty list: fetch_batch([]) starts no task and
\* reports no feed.
C21_ExplicitEmpty ==
    [][FetchBatch(<<>>)
         => /\ call'.n = 0 /\ call'.processed = 0
            /\ \A t \in Tasks : tasks'[t].pc = "idle"
      ]_vars

\* a step that selects a default batch; reply' holds the selection
SelectBatchStep == reply'.op = "fetch_batch" /\ reply' # reply

C24_TriggerResult ==
    (call.status \in {"done", "raised"} /\ call.n = 1 /\ call.processed = 1)
      => /\ call.status = "done"
         /\ tasks[1].pc = "done" => call.added = tasks[1].added

\* C25 as stated: after any sequence of add_feed calls of the file-based
\* registry, list_feeds returns no URL twice.
C25_ListedOnce ==
    LET listed == file_list_feeds(feed_file)
    IN  \A i \in 1..Len(listed) : \A j \in 1..Len(listed) :
           listed[i] = listed[j] => i = j

\* the positions of a task inside the body of the entry loop
EntryPcs == {"gate", "summarizing", "backoff", "delay", "entry_lock", "entry_write"}

\* C26: a task inside the entry loop is at one entry, which has text; it
\* enters the loop from the fetch at the first entry with text and moves
\* on only from the end of the delay (the entry is skipped) or from the end
\* of the store write, and then to the first attempt of the next entry with
\* text in the order of the parser's output, which does not change.
C26_InOrder ==
    [][\A t \in Tasks :
         LET r == tasks[t]
             n == tasks'[t]
         IN  /\ n.pc \in EntryPcs
                  => /\ n.idx \in 1..Len(n.entries)
                     /\ HasText(n.entries[n.idx])
                     /\ r.pc \in EntryPcs \cup {"fetching"}
             /\ (r.pc = "fetching" /\ n.pc \in EntryPcs)
                  => (n.pc = "gate" /\ n.attempt = 0 /\ n.idx = SkipTo(n.entries, 1))
             /\ (r.pc \in EntryPcs /\ n.pc \in EntryPcs)
                  => n.entries = r.entries
             /\ (r.pc \in EntryPcs /\ n.pc \in EntryPcs /\ n.idx # r.idx)
                  => /\ r.pc \in {"delay", "entry_write"}
                     /\ r.pc = "entry_write" => ~dbLocked'
                     /\ n.pc = "gate" /\ n.attempt = 0
                     /\ n.idx = SkipTo(r.entries, r.idx + 1)
             /\ (r.pc \in EntryPcs /\ n.pc \notin EntryPcs)
                  => /\ r.pc \in {"delay", "entry_write"}
                     /\ n.pc = "headers"
                     /\ SkipTo(r.entries, r.idx + 1) > Len(r.entries)
      ]_vars

\* C26 witness: a task is in the first summarization attempt of its second
\* entry after its first entry, which had text, was summarised and skipped.
C26_Witness ==
    \E t \in Tasks :
        /\ backend = "source"
        /\ tasks[t].pc = "summarizing" /\ tasks[t].attempt = 0
        /\ tasks[t].idx = 2 /\ HasText(tasks[t].entries[1])
        /\ tasks[t].added = 0

C28_NoFaultEscapes == \A t \in Tasks : tasks[t].pc # "raised"

\* a task holds the summarizer gate, holds the write lock, waits for one
HoldsGate(t) == tasks[t].pc = "summarizing"
HoldsLock(t) == tasks[t].pc \in WriterPcs
WaitsGate(t) == tasks[t].pc = "gate"
WaitsLock(t) == tasks[t].pc \in {"entry_lock", "meta_lock"}

\* C29: no task holds the gate and the lock together; the gate's value and
\* the lock's state are accounted for by the tasks inside them; and a task
\* that waits for the gate or for the lock finds it free or held by a task
\* that is inside its call or its write, which needs nothing else to leave
\* it: no state is a deadlock on the two.
C29_LockIndependence ==
    /\ \A t \in Tasks : ~(HoldsGate(t) /\ HoldsLock(t))
    /\ \A t \in Tasks : HoldsGate(t) => ~WaitsLock(t)
    /\ \A t \in Tasks : HoldsLock(t) => ~WaitsGate(t)
    /\ sem = SemaphoreInit - Cardinality({ t \in Tasks : HoldsGate(t) })
    /\ dbLocked <=> (\E t \in Tasks : HoldsLock(t))
    /\ (\E t \in Tasks : WaitsGate(t))
         => (SemaphoreFree(sem) \/ \E t \in Tasks : HoldsGate(t))
    /\ (\E t \in Tasks : WaitsLock(t))
         => (LockFree(dbLocked) \/ \E t \in Tasks : HoldsLock(t))
    /\ (\E t \in Tasks : tasks[t].pc \notin Finished \cup {"idle"})
         => call.status = "running"

\* C29 witness: one task is inside summarize_text while another is inside a
\* storage write, and the two others' resources are taken.
C29_Witness ==
    \E t1 \in Tasks : \E t2 \in Tasks :
        /\ HoldsGate(t1) /\ HoldsLock(t2)
        /\ sem = 0 /\ dbLocked

\* C30 as stated: with a summarizer that returns the mapping, a backoff
\* sleep is followed by another attempt for the entry.
C30_BackoffBetweenAttempts ==
    backend = "contract"
      => \A t \in Tasks :
            tasks[t].pc = "backoff" => tasks[t].attempt + 1 < max_retries

C32_DefaultBatchSize ==
    [][(SelectBatchStep /\ ~reply'.raised)
         => Len(reply'.urls) = Min(Len(feeds), DocumentedBatch)]_vars

C35_NoEntryLost ==
    [][\A t \in Tasks :
          LET r == tasks[t] IN
          (/\ backend = "contract"
           /\ r.pc = "meta_write" /\ tasks'[t].pc = "done"
           /\ feeds' # feeds)
          => \A i \in 1..Len(r.entries) :
                HasText(r.entries[i])
                  => EntryKeyTaken(entries, r.url, r.entries[i].link)
      ]_vars

\* C37: the text a task has for the entry it is at is the entry's content
\* when that is not empty and its summary otherwise, and it is not empty;
\* an entry with neither is passed over without a summarizer call, a sleep
\* or a store write: the task is never at it, the step that leaves the
\* entry before it goes on to the next entry that has a text or, when there
\* is none, to the reading of the headers, and no row carries its link.
C37_TextSelection ==
    /\ [](\A t \in Tasks :
            tasks[t].pc \in EntryPcs
              => LET e == tasks[t].entries[tasks[t].idx] IN
                 /\ tasks[t].text # ""
                 /\ tasks[t].text = IF e.content # "" THEN e.content ELSE e.summary)
    /\ [](\A row \in BagToSet(entries) :
            \E t \in Tasks : \E i \in 1..Len(tasks[t].entries) :
               /\ tasks[t].url = row.feed
               /\ tasks[t].entries[i].link = row.link
               /\ HasText(tasks[t].entries[i]))
    /\ [][\A t \in Tasks :
            LET r == tasks[t]
                n == tasks'[t]
                from == IF r.pc = "fetching" THEN 0 ELSE r.idx
            IN  (/\ r.pc \in {"fetching", "delay", "entry_write"}
                 /\ n.pc \in {"gate", "headers"}
                 /\ n.status = "ok")
                => /\ n.pc = "gate"
                     => /\ n.idx > from
                        /\ \A i \in (from + 1)..(n.idx - 1) : ~HasText(n.entries[i])
                   /\ n.pc = "headers"
                     => \A i \in (from + 1)..Len(n.entries) : ~HasText(n.entries[i])
         ]_vars

\* C37 witness: a task is inside the summarizer call for its second entry
\* with the entry's summary as the text, the entry having no content, after
\* it passed over its first entry, which has neither.
C37_Witness ==
    \E t \in Tasks :
        /\ tasks[t].pc = "summarizing"
        /\ tasks[t].idx = 2
        /\ ~HasText(tasks[t].entries[1])
        /\ tasks[t].entries[2].content = ""
        /\ tasks[t].text = tasks[t].entries[2].summary
        /\ tasks[t].text # ""

\* the sentences of a text, as chunk_long_text takes them: the stripped,
\* non-empty pieces between the sentence ends followed by a space (and
\* between the "|" of the text)
NonEmptySentence(sentence) == sentence # <<>>
SentencesOf(text) ==
    LET pieces == Split(ReplaceEnders(text), "|")
    IN  SelectSeq([i \in 1..Len(pieces) |-> StripSentence(pieces[i])],
                  NonEmptySentence)

\* the chunks are the sentences in their order, each once, cut into
\* consecutive groups that are joined by a space
RECURSIVE GroupsOf(_, _)
GroupsOf(chunks, sentences) ==
    IF chunks = <<>> THEN sentences = <<>>
    ELSE \E k \in 1..Len(sentences) :
            /\ Join(SubSeq(sentences, 1, k)) = Head(chunks)
            /\ GroupsOf(Tail(chunks), SubSeq(sentences, k + 1, Len(sentences)))

\* C38: no chunk chunk_long_text returns is empty; a chunk is at most
\* max_chunk_size characters long unless it is one sentence that is longer
\* by itself; and the chunks hold every non-empty sentence of the text once
\* and in the order of the text.
C38_ChunkBound ==
    reply.op = "chunk_long_text"
      => LET chunks == reply.urls
             sentences == SentencesOf(reply.text)
         IN  /\ \A k \in 1..Len(chunks) : chunks[k] # <<>>
             /\ \A k \in 1..Len(chunks) :
                   \/ Len(chunks[k]) <= reply.id
                   \/ \E i \in 1..Len(sentences) :
                         sentences[i] = chunks[k] /\ Len(sentences[i]) > reply.id
             /\ GroupsOf(chunks, sentences)

\* C38 witness: a text of three sentences came back as two chunks, the
\* first of them made of two sentences and as long as max_chunk_size.
C38_Witness ==
    /\ reply.op = "chunk_long_text"
    /\ Len(SentencesOf(reply.text)) = 3
    /\ Len(reply.urls) = 2
    /\ Len(reply.urls[1]) = reply.id
    /\ reply.urls[1] # SentencesOf(reply.text)[1]

\* the connections that are checked out (held by a caller inside its with)
CheckedOut == { callers[u].conn : u \in { v \in Callers : callers[v].conn # 0 } }

\* C39: once _init_pool has put its connections, the connections in the
\* pool and the connections checked out are _pool_size together; no
\* connection is held by two callers, is in the pool while held, or is in
\* the pool twice; a caller holds a connection exactly while it is inside
\* its with-block; and every exit from the with-block, by its end, by a
\* return or by an exception, puts the caller's connection back.
C39_PoolConservation ==
    /\ []((_pool.set /\ \A u \in Callers : callers[u].pc # "init")
            => Len(_pool.queue) + Cardinality(CheckedOut) = _pool_size)
    /\ [](\A u \in Callers : \A v \in Callers :
            (u # v /\ callers[u].conn # 0) => callers[u].conn # callers[v].conn)
    /\ [](\A k \in 1..Len(_pool.queue) :
            /\ _pool.queue[k] \notin CheckedOut
            /\ \A m \in 1..Len(_pool.queue) : _pool.queue[k] = _pool.queue[m] => k = m)
    /\ [](\A u \in Callers : callers[u].conn # 0 <=> callers[u].pc = "body")
    /\ [][\A u \in Callers :
            (callers[u].pc = "body" /\ callers'[u].pc # "body")
              => /\ _pool'.queue = Append(_pool.queue, callers[u].conn)
                 /\ callers'[u].conn = 0
         ]_vars

\* C39 witness: two callers are inside their with-blocks with different
\* connections, three connections are in the pool, and the with-block left
\* last was left by an exception.
C39_Witness ==
    /\ callers[1].pc = "body" /\ callers[2].pc = "body"
    /\ callers[1].conn # callers[2].conn
    /\ Len(_pool.queue) = 3
    /\ reply.op = "add_feed" /\ reply.raised

\* C36 as stated: a URL comes to be in the feeds table only in the step of
\* an add_feed call for that URL which returns True: what an add_feed that
\* returned False left behind on its connection never reaches the table.
C36_FailedUpsertAtomic ==
    [][\A u \in Urls :
          (FeedUrlTaken(feeds', u) /\ ~FeedUrlTaken(feeds, u))
            => (reply'.op = "add_feed" /\ reply'.ok /\ Strip(reply'.url) = u)
      ]_vars

\* C34 as stated, for the feed registered last: when default batches are
\* polled again and again, the feed is in a batch at some time.
C34_NoStarvation ==
    <>(/\ reply.op = "fetch_batch"
       /\ \E k \in 1..Len(reply.urls) : reply.urls[k] = ManyUrls[Len(ManyUrls)])

====
